---- MODULE Spec2Model ----
(***************************************************************************)
(* Model of Registry.py: the settings registry (nested store _data), the   *)
(* module-level caches _LEAF / _NODE / _CHILDREN, the theme cache, the     *)
(* setting_changed signal and the reactive descriptor.                     *)
(*                                                                         *)
(* A dot-path "theme.light.bg" is the sequence <<"theme","light","bg">>    *)
(* (what _split returns).  The nested dict _data is kept flat: data[p] is  *)
(* the object found at path p, ABSENT when the key is not in its parent    *)
(* dict, GROUP when it is a dict, otherwise the scalar stored there (NONE  *)
(* is Python's None stored under an existing key).                         *)
(*                                                                         *)
(* Calls are synchronous.  The call stack is the variable stack; user      *)
(* operations start only when it is empty, and a step with a non-empty     *)
(* stack runs the next piece of the innermost call (a slot of an emit, an  *)
(* instruction of a reactive function).                                    *)
(***************************************************************************)
EXTENDS Integers, Sequences, FiniteSets, TLC

\* ------------------------------------------------------------------ values
ABSENT  == "<absent>"
GROUP   == "<dict>"
NONE    == "None"
MISSING == "<MissingNode>"
KEYERR  == "<KeyError>"
VALERR  == "<ValueError>"
ATTRERR == "<AttributeError>"
INDEXERR == "<IndexError>"
OK      == "<ok>"

Scalars == {"light", "dark"}

\* ------------------------------------------------------------------- paths
pTheme   == <<"theme">>
pMode    == <<"theme", "mode">>
pLight   == <<"theme", "light">>
pDark    == <<"theme", "dark">>
pLightBg == <<"theme", "light", "bg">>
pDarkBg  == <<"theme", "dark", "bg">>
pLightBgX == <<"theme", "light", "bg", "x">>
pBg      == <<"theme", "bg">>
pU       == <<"u">>
pUa      == <<"u", "a">>
pUb      == <<"u", "b">>
pUax     == <<"u", "a", "x">>
pW       == <<"w">>

AllPaths == {pTheme, pMode, pLight, pDark, pLightBg, pDarkBg, pLightBgX, pBg,
             pU, pUa, pUb, pUax, pW}

ThemeKeys == {"bg"}

Prefix(keys, i) == SubSeq(keys, 1, i)
IsPrefix(p, q) == Len(p) <= Len(q) /\ Prefix(q, Len(p)) = p
IsProperPrefix(p, q) == Len(p) < Len(q) /\ Prefix(q, Len(p)) = p

\* partial maps (Python dicts keyed by path)
EmptyMap == [x \in {} |-> NONE]
Put(f, k, v) == [x \in (DOMAIN f) \cup {k} |-> IF x = k THEN v ELSE f[x]]
Del(f, k) == [x \in (DOMAIN f) \ {k} |-> f[x]]

\* values handed to set(): a scalar (or None), or a mapping from keys to
\* scalars or (GROUP) to empty mappings
ScalarVal(s) == [isDict |-> FALSE, s |-> s, m |-> EmptyMap]
DictVal(m) == [isDict |-> TRUE, s |-> GROUP, m |-> m]
Mappings == {EmptyMap} \cup {[k \in ThemeKeys |-> s] : s \in Scalars}

\* ------------------------------------------------------------------- state
VARIABLES
  data,         \* _data, flat: [AllPaths -> ABSENT | GROUP | NONE | scalar]
  LEAF,         \* _LEAF: path -> cached value
  NODE,         \* _NODE: path -> proxy identity
  CHILDREN,     \* _CHILDREN: parent path -> set of registered paths
  theme_cache,  \* _theme_cache: [mode, light, dark]
  TLstack,      \* _TL.stack: sequence of tracking sets
  conns,        \* per binding: path -> handler identity (_func_conns)
  slots,        \* connections of setting_changed, in connection order
  stack,        \* call stack, innermost frame last
  ret,          \* what the last completed user operation returned or raised
  op,           \* the user operation in progress or last completed
  writes,       \* (path, value) of each store commit since the operation began
  events,       \* (path, value) of each emit since the operation began
  lastRun,      \* per binding: how its most recent finished run ended, what it read
  discarded,    \* the instance reset() discarded, on which the bindings were created
  snap,         \* the snapshot the caller holds, if it has taken one
  reader        \* a second thread: the get it is in, and the value it has read

vars == <<data, LEAF, NODE, CHILDREN, theme_cache, TLstack, conns, slots,
          stack, ret, op, writes, events, lastRun, discarded, snap,
          reader>>

\* ----------------------------------------------------------- child index
RECURSIVE RegisterFrom(_, _, _)
RegisterFrom(ch, path, i) ==
  IF i > Len(path) - 1 THEN ch
  ELSE LET parent == Prefix(path, i)
           s == IF parent \in DOMAIN ch THEN ch[parent] ELSE {}
       IN RegisterFrom(Put(ch, parent, s \cup {path}), path, i + 1)

register_path(ch, path) == RegisterFrom(ch, path, 1)

\* a bug: the set of a prefix is kept when it becomes empty
RECURSIVE UnregisterFrom_keep_empty(_, _, _)
UnregisterFrom_keep_empty(ch, path, i) ==
  IF i > Len(path) - 1 THEN ch
  ELSE LET parent == Prefix(path, i) IN
       IF parent \in DOMAIN ch /\ ch[parent] # {}
       THEN UnregisterFrom_keep_empty(Put(ch, parent, ch[parent] \ {path}), path, i + 1)
       ELSE UnregisterFrom_keep_empty(ch, path, i + 1)

RECURSIVE UnregisterFrom(_, _, _)
UnregisterFrom(ch, path, i) ==
  IF i > Len(path) - 1 THEN ch
  ELSE LET parent == Prefix(path, i) IN
       IF parent \in DOMAIN ch /\ ch[parent] # {}
       THEN LET s == ch[parent] \ {path} IN
            UnregisterFrom(IF s = {} THEN Del(ch, parent) ELSE Put(ch, parent, s),
                           path, i + 1)
       ELSE UnregisterFrom(ch, path, i + 1)

unregister_path(ch, path) == UnregisterFrom(ch, path, 1)

\* [LEAF, CHILDREN] after _cache_leaf(path, value)
cache_leaf(st, path, value) ==
  [st EXCEPT !.CHILDREN = IF path \in DOMAIN st.LEAF THEN @ ELSE register_path(@, path),
             !.LEAF = Put(@, path, value)]

\* SettingsNode(registry, path): a proxy holds its path and nothing else
PROXY == "<SettingsNode>"

cache_node(st, path, node) ==
  [st EXCEPT !.CHILDREN = IF path \in DOMAIN st.NODE THEN @ ELSE register_path(@, path),
             !.NODE = Put(@, path, node)]

\* ------------------------------------------------------------- tracking
push_tracking(tl) == Append(tl, {})

track(tl, path) ==
  IF Len(tl) > 0 THEN [tl EXCEPT ![Len(tl)] = @ \cup {path}] ELSE tl

\* ------------------------------------------------------------- the store
DictGet(d, q) == IF d[q] = ABSENT THEN NONE ELSE d[q]

RECURSIVE GetWalk(_, _, _, _)
GetWalk(d, keys, i, cur) ==
  IF i > Len(keys) THEN cur
  ELSE IF cur = GROUP THEN GetWalk(d, keys, i + 1, DictGet(d, Prefix(keys, i)))
  ELSE NONE

get_nested(d, path) == GetWalk(d, path, 1, GROUP)

\* breadth-first collection of lines 512-519
RECURSIVE Collect(_, _, _)
Collect(ch, queue, acc) ==
  IF queue = {} THEN acc
  ELSE LET p == CHOOSE x \in queue : TRUE
           kids == IF p \in DOMAIN ch THEN ch[p] ELSE {}
       IN Collect(ch, (queue \ {p}) \cup (kids \ (acc \cup {p})), acc \cup {p})

\* a bug: only the proxies are removed, the leaf entries stay
RECURSIVE RemoveAll_proxies_only(_, _)
RemoveAll_proxies_only(st, todo) ==
  IF todo = {} THEN st
  ELSE LET p == CHOOSE x \in todo : TRUE
           s2 == IF p \in DOMAIN st.NODE /\ p \notin DOMAIN st.LEAF
                 THEN [st EXCEPT !.CHILDREN = unregister_path(@, p), !.NODE = Del(@, p)]
                 ELSE IF p \in DOMAIN st.NODE THEN [st EXCEPT !.NODE = Del(@, p)]
                 ELSE st
       IN RemoveAll_proxies_only(s2, todo \ {p})

RECURSIVE RemoveAll(_, _)
RemoveAll(st, todo) ==
  IF todo = {} THEN st
  ELSE LET p == CHOOSE x \in todo : TRUE
           s1 == IF p \in DOMAIN st.LEAF
                 THEN [st EXCEPT !.CHILDREN = unregister_path(@, p), !.LEAF = Del(@, p)]
                 ELSE st
           s2 == IF p \in DOMAIN s1.NODE
                 THEN [s1 EXCEPT !.CHILDREN = unregister_path(@, p), !.NODE = Del(@, p)]
                 ELSE s1
       IN RemoveAll(s2, todo \ {p})

\* a bug: the caches are left as they are
invalidate_nothing(st, path) == st

\* a bug: only the entries of path itself are removed
invalidate_self_only(st, path) ==
  LET s1 == RemoveAll(st, {path})
  IN [s1 EXCEPT !.CHILDREN = Del(@, path)]

invalidate(st, path) ==
  LET to_remove == Collect(st.CHILDREN, {path}, {})
      s1 == RemoveAll(st, to_remove)
  IN [s1 EXCEPT !.CHILDREN = Del(@, path)]

\* ---------------------------------------------------------- theme cache
\* A reference held by the theme cache: the dict object stored at theme.light
\* (alias), or a dict the cache owns (the {} of `or {}`, or a dict that was
\* replaced in the store while the cache still held it).
AliasRef == [alias |-> TRUE, m |-> EmptyMap]
OwnRef(m) == [alias |-> FALSE, m |-> m]
EmptyThemeCache == [mode |-> NONE, light |-> OwnRef(EmptyMap), dark |-> OwnRef(EmptyMap)]

\* the keys of the dict stored at group path p
DictKeys(d, p) == {q[Len(q)] : q \in {x \in AllPaths : Len(x) = Len(p) + 1
                                        /\ Prefix(x, Len(p)) = p /\ d[x] # ABSENT}}
DictItems(d, p) == [k \in DictKeys(d, p) |-> d[Append(p, k)]]

RefKeys(d, ref, p) == IF ref.alias THEN DictKeys(d, p) ELSE DOMAIN ref.m
RefGet(d, ref, p, k) == IF ref.alias THEN d[Append(p, k)] ELSE ref.m[k]

\* td.get(name) or {}
RefOrEmpty(d, p) == IF DictKeys(d, p) # {} THEN AliasRef ELSE OwnRef(EmptyMap)

\* the dict at p is about to be replaced in the store: a cache entry that
\* references it keeps the old object
Detach(tc, d, p) ==
  [tc EXCEPT !.light = IF p = pLight /\ @.alias THEN OwnRef(DictItems(d, pLight)) ELSE @,
             !.dark = IF p = pDark /\ @.alias THEN OwnRef(DictItems(d, pDark)) ELSE @]

theme_cache_clear(tc) == EmptyThemeCache

\* line 470: _data.get("theme", {}).get("mode") or "light"
StoreMode(d) == IF DictGet(d, pMode) = NONE THEN "light" ELSE d[pMode]

\* [st, ret] after _theme_get(key)
theme_get(st, key) ==
  LET mode == StoreMode(st.data)
      cache == IF st.theme_cache.mode # mode
               THEN [mode |-> mode,
                     light |-> RefOrEmpty(st.data, pLight),
                     dark |-> RefOrEmpty(st.data, pDark)]
               ELSE st.theme_cache
      s1 == [st EXCEPT !.theme_cache = cache]
  IN IF key \notin RefKeys(st.data, cache.light, pLight) THEN [st |-> s1, ret |-> KEYERR]
     ELSE IF key \notin RefKeys(st.data, cache.dark, pDark) THEN [st |-> s1, ret |-> KEYERR]
     ELSE [st |-> [s1 EXCEPT !.TLstack = track(track(@, <<"theme", cache.mode, key>>), pMode)],
           ret |-> IF mode = "light" THEN RefGet(st.data, cache.light, pLight, key)
                   ELSE RefGet(st.data, cache.dark, pDark, key)]

\* path is "theme.<key>" with key not light, dark or mode (lines 651-653, 674-676)
IsIndirectTheme(path) ==
  Len(path) = 2 /\ path[1] = "theme" /\ path[2] \notin {"light", "dark", "mode"}

\* ------------------------------------------------------------------ reads
\* [st, ret] after get(path)
get(st, path) ==
  IF IsIndirectTheme(path) THEN theme_get(st, path[2])
  ELSE LET s1 == [st EXCEPT !.TLstack = track(@, path)] IN
       IF path \in DOMAIN s1.LEAF THEN [st |-> s1, ret |-> s1.LEAF[path]]
       ELSE LET v == get_nested(s1.data, path) IN
            IF v = NONE THEN [st |-> s1, ret |-> MISSING]
            ELSE [st |-> cache_leaf(s1, path, v), ret |-> v]

\* ----------------------------------------------------------------- writes
\* a bug: a value met on the way is replaced by a group instead of raising
RECURSIVE WalkCreate_overwrite(_, _, _)
WalkCreate_overwrite(d, keys, i) ==
  IF i > Len(keys) - 1 THEN [ok |-> TRUE, data |-> d]
  ELSE LET q == Prefix(keys, i) IN
       IF d[q] # GROUP THEN WalkCreate_overwrite([d EXCEPT ![q] = GROUP], keys, i + 1)
       ELSE WalkCreate_overwrite(d, keys, i + 1)

\* the loop of lines 535-543: [ok, data]
RECURSIVE WalkCreate(_, _, _)
WalkCreate(d, keys, i) ==
  IF i > Len(keys) - 1 THEN [ok |-> TRUE, data |-> d]
  ELSE LET q == Prefix(keys, i) IN
       IF d[q] = ABSENT THEN WalkCreate([d EXCEPT ![q] = GROUP], keys, i + 1)
       ELSE IF d[q] # GROUP THEN [ok |-> FALSE, data |-> d]
       ELSE WalkCreate(d, keys, i + 1)

\* data[last_key] = value for a mapping: the dict at path is the new object
StoreDict(d, path, m) ==
  [q \in AllPaths |->
     IF q = path THEN GROUP
     ELSE IF IsProperPrefix(path, q)
          THEN (IF Len(q) = Len(path) + 1 /\ q[Len(q)] \in DOMAIN m THEN m[q[Len(q)]] ELSE ABSENT)
          ELSE d[q]]

StartsWithTheme(path) == path[1] = "theme"

\* a bug: the emit is made before the caches are invalidated
Commit_emit_first(st, path) == [st |-> st, emit |-> TRUE]

\* a bug: the write is committed without emitting
Commit_no_emit(st, path) == [st |-> invalidate(st, path), emit |-> FALSE]

\* lines 556-557 and 576-577: the cache invalidation and the emit that end
\* an accepted write
Commit(st, path) == [st |-> invalidate(st, path), emit |-> TRUE]

\* [st, outcome, emit] after _set_nested(path, value, allow_none); outcome is
\* "accepted" when the store was assigned (lines 554, 571), emit when the
\* signal was emitted (lines 557, 577)
set_nested(st, path, value, allow_none) ==
  LET w == WalkCreate(st.data, path, 1)
      s1 == [st EXCEPT !.data = w.data]
  IN IF ~w.ok THEN [st |-> s1, outcome |-> "raised", emit |-> FALSE]
     ELSE IF value.isDict
     THEN IF path \notin {pLight, pDark}
          THEN [st |-> s1, outcome |-> "raised", emit |-> FALSE]
          ELSE LET c == Commit([s1 EXCEPT !.data = StoreDict(@, path, value.m),
                                          !.theme_cache = theme_cache_clear(Detach(@, s1.data, path))],
                               path)
               IN [st |-> c.st, outcome |-> "accepted", emit |-> c.emit]
     ELSE IF s1.data[path] = GROUP
     THEN [st |-> s1, outcome |-> "raised", emit |-> FALSE]
     ELSE IF ~allow_none /\ DictGet(s1.data, path) = value.s
     THEN [st |-> s1, outcome |-> "skipped", emit |-> FALSE]
     ELSE LET c == Commit([s1 EXCEPT !.data = [@ EXCEPT ![path] = value.s],
                                     !.theme_cache = IF StartsWithTheme(path)
                                                     THEN theme_cache_clear(@) ELSE @],
                          path)
          IN [st |-> c.st, outcome |-> "accepted", emit |-> c.emit]

\* a bug: set lets a bare theme key through
set_unguarded(st, path, value) == set_nested(st, path, value, FALSE)

\* [st, outcome, emit] after set(path, value)
set(st, path, value) ==
  IF IsIndirectTheme(path) THEN [st |-> st, outcome |-> "raised", emit |-> FALSE]
  ELSE set_nested(st, path, value, FALSE)

\* -------------------------------------------------- reactive functions
\* The functions wrapped with @settings.reactive:
\*   X:  a = get("u.a")
\*       if a == None: return
\*       set("w", a)
\*       if a == "light": get("u.b")
\*   C:  get("w"); X()            (a reactive function calling another one)
\*   T:  get("theme.bg")
\*   R:  get("u.a"); SettingsRegistry.reset()
\*   F:  a = get("u.a"); if a == None: return; set("u.b", a)
\*   G:  b = get("u.b"); if b == None: return; set("u.a", the other mode)
\*   D:  get("w"); T()            (T raises while theme.bg is undefined)
\*   Y:  a = get("u.a"); if a == None: return; set("w", a);
\*       if a == "light": set("theme.bg", a)      (refused: ValueError)
\*   E:  v = get("w"); if v == None: return; set("u.a", the other mode); Y()
Bindings == {"X", "C", "T", "R", "F", "G", "D", "Y", "E"}

\* the other of the two modes
Flip(s) == IF s = "light" THEN "dark" ELSE "light"

Instr(o, p, a) == [op |-> o, path |-> p, arg |-> a]

Prog(b) ==
  CASE b = "X" -> <<Instr("get", pUa, ""), Instr("retnone", <<>>, ""),
                    Instr("setreg", pW, ""), Instr("skipne", <<>>, "light"),
                    Instr("get", pUb, "")>>
    [] b = "C" -> <<Instr("get", pW, ""), Instr("call", <<>>, "X")>>
    [] b = "T" -> <<Instr("get", pBg, "")>>
    [] b = "D" -> <<Instr("get", pW, ""), Instr("call", <<>>, "T")>>
    [] b = "Y" -> <<Instr("get", pUa, ""), Instr("retnone", <<>>, ""),
                    Instr("setreg", pW, ""), Instr("skipne", <<>>, "light"),
                    Instr("setreg", pBg, "")>>
    [] b = "E" -> <<Instr("get", pW, ""), Instr("retnone", <<>>, ""),
                    Instr("setflip", pUa, ""), Instr("call", <<>>, "Y")>>
    [] b = "R" -> <<Instr("get", pUa, ""), Instr("reset", <<>>, "")>>
    [] b = "F" -> <<Instr("get", pUa, ""), Instr("retnone", <<>>, ""),
                    Instr("setreg", pUb, "")>>
    [] b = "G" -> <<Instr("get", pUb, ""), Instr("retnone", <<>>, ""),
                    Instr("setflip", pUa, "")>>

\* ------------------------------------------------------------ call stack
NoFired == [b \in Bindings |-> 0]
\* seen: what the function read at each path it asked for (for the properties)
NeverRun == [status |-> "never", keys |-> {}, dropped |-> {}, seen |-> EmptyMap]

\* the caller: the operation it is in (none when name is "idle") and what the
\* operation returned or raised
NoOp == [name |-> "idle", path |-> <<>>, val |-> ScalarVal(NONE), outcome |-> "", items |-> <<>>]
NoRet == [v |-> OK, node |-> ""]

\* the instance reset() has discarded, if any, and the handlers still connected
\* to its change signal
NoDiscarded == [is |-> FALSE, slots |-> <<>>]

\* a snapshot is a reference to a nested dict: the store's own (alias) or a
\* separate copy d
NoSnap == [taken |-> FALSE, alias |-> FALSE, d |-> [p \in AllPaths |-> ABSENT]]

\* the second thread is outside get
NoReader == [pc |-> "idle", path |-> <<>>, v |-> NONE, missed |-> FALSE]

\* the registry after __init__ with no defaults (lines 408-415)
Blank ==
  [data |-> [p \in AllPaths |-> ABSENT], LEAF |-> EmptyMap, NODE |-> EmptyMap,
   CHILDREN |-> EmptyMap, theme_cache |-> EmptyThemeCache, TLstack |-> <<>>,
   conns |-> [b \in Bindings |-> EmptyMap], slots |-> <<>>, stack |-> <<>>,
   ret |-> NoRet, op |-> NoOp,
   writes |-> <<>>, events |-> <<>>, lastRun |-> [b \in Bindings |-> NeverRun],
   discarded |-> NoDiscarded, snap |-> NoSnap, reader |-> NoReader]

Constructed ==
  LET s1 == set_nested(Blank, pMode, ScalarVal("light"), FALSE).st
      s2 == set_nested(s1, pLight, DictVal(EmptyMap), FALSE).st
  IN set_nested(s2, pDark, DictVal(EmptyMap), FALSE).st

\* a bug: reset leaves the handlers of the discarded instance connected
reset_connected(m) ==
  [m EXCEPT !.data = Constructed.data, !.theme_cache = Constructed.theme_cache,
            !.LEAF = EmptyMap, !.NODE = EmptyMap, !.CHILDREN = EmptyMap,
            !.TLstack = <<>>, !.slots = <<>>,
            !.discarded = [is |-> TRUE, slots |-> m.slots]]

\* SettingsRegistry.reset() and the instance() that follows it: the signal of
\* the discarded instance is disconnected, the module-wide caches and this
\* thread's tracking stack are cleared, and the next store is constructed, with
\* a signal of its own that nothing is connected to.  The descriptors keep
\* their connection tables
reset(m) ==
  [m EXCEPT !.data = Constructed.data, !.theme_cache = Constructed.theme_cache,
            !.LEAF = EmptyMap, !.NODE = EmptyMap, !.CHILDREN = EmptyMap,
            !.TLstack = <<>>, !.slots = <<>>,
            !.discarded = [is |-> TRUE, slots |-> <<>>]]

\* the value theme.bg stands for in store d (from the store, not the cache)
UNDEF == "<undefined>"
ThemeResolved(d) ==
  IF d[pLightBg] # ABSENT /\ d[pDarkBg] # ABSENT
  THEN d[<<"theme", StoreMode(d), "bg">>] ELSE UNDEF

\* setting_changed.emit(path, val) in progress: todo are the connections still
\* to be visited; fired, deps0 and was record, for this emit, the runs its
\* slots started, every binding's last run when it began, what theme.bg stood
\* for before the write and what the store held at path before it
EmitFrame(path, val, todo, deps, was, old) ==
  [kind |-> "emit", b |-> "", pc |-> 0, reg |-> "", token |-> 0, path |-> path,
   val |-> val, todo |-> todo, fired |-> NoFired, deps0 |-> deps, was |-> was,
   old |-> old, seen |-> EmptyMap]

\* _run of binding b executing its function at instruction pc
RunFrame(b, token) ==
  [kind |-> "run", b |-> b, pc |-> 1, reg |-> "", token |-> token, path |-> <<>>,
   val |-> ScalarVal(NONE), todo |-> <<>>, fired |-> NoFired,
   deps0 |-> [x \in Bindings |-> NeverRun], was |-> "", old |-> "", seen |-> EmptyMap]

\* _load_defaults with the leaves still to write
LoadFrame(items) ==
  [kind |-> "load", b |-> "", pc |-> 0, reg |-> "", token |-> 0, path |-> <<>>,
   val |-> ScalarVal(NONE), todo |-> items, fired |-> NoFired,
   deps0 |-> [x \in Bindings |-> NeverRun], was |-> "", old |-> "", seen |-> EmptyMap]

Top(m) == m.stack[Len(m.stack)]
Pop(m) == [m EXCEPT !.stack = SubSeq(@, 1, Len(@) - 1)]
SetTop(m, f) == [m EXCEPT !.stack[Len(m.stack)] = f]

\* identities of handler closures that are still referenced
UsedIds(m) ==
  {m.slots[i].id : i \in 1..Len(m.slots)}
  \cup UNION {{m.conns[b][k] : k \in DOMAIN m.conns[b]} : b \in Bindings}
  \cup UNION {{m.stack[i].todo[j].id : j \in 1..Len(m.stack[i].todo)} :
                i \in {x \in 1..Len(m.stack) : m.stack[x].kind = "emit"}}

FreshId(m) == CHOOSE n \in 1..(Cardinality(UsedIds(m)) + 1) : n \notin UsedIds(m)

IsConnected(m, id) == \E i \in 1..Len(m.slots) : m.slots[i].id = id

\* setting_changed.emit(path, val): visits the connections present now
BeginEmit(m, path, val, was, old) ==
  [m EXCEPT !.events = Append(@, [path |-> path, val |-> val]),
            !.stack = Append(@, EmitFrame(path, val, m.slots, m.lastRun, was, old))]

\* a write returned r when called in m0
AfterSet(m0, r, path, val) ==
  LET m1 == IF r.outcome = "accepted"
            THEN [r.st EXCEPT !.writes = Append(@, [path |-> path, val |-> val])]
            ELSE r.st
  IN IF r.emit THEN BeginEmit(m1, path, val, ThemeResolved(m0.data), m0.data[path]) ELSE m1

\* lines 357-368: disconnect the handlers of the previous run, open a scope
StartRun(m, b) ==
  LET old == {m.conns[b][k] : k \in DOMAIN m.conns[b]}
  IN [m EXCEPT !.slots = SelectSeq(@, LAMBDA h : h.id \notin old),
               !.conns[b] = EmptyMap,
               !.TLstack = push_tracking(@),
               !.stack = Append(@, RunFrame(b, Len(m.TLstack) + 1))]

\* lines 374-382: one handler per accessed key, recorded and connected
RECURSIVE Install(_, _, _)
Install(m, b, keys) ==
  IF keys = {} THEN m
  ELSE LET k == CHOOSE x \in keys : TRUE
           h == [id |-> FreshId(m), b |-> b, k |-> k]
       IN Install([m EXCEPT !.conns[b] = Put(@, k, h.id), !.slots = Append(@, h)],
                  b, keys \ {k})

Ended(last, status, accessed, seen) ==
  [status |-> status, keys |-> accessed,
   dropped |-> (last.dropped \cup last.keys) \ accessed, seen |-> seen]

\* a bug: a failing function leaves its scope open (no finally)
RECURSIVE Unwind_scope_left(_, _)
Unwind_scope_left(m, err) ==
  IF Len(m.stack) = 0 THEN [m EXCEPT !.ret = [v |-> err, node |-> ""]]
  ELSE IF Top(m).kind = "run"
  THEN Unwind_scope_left(Pop([m EXCEPT !.lastRun[Top(m).b] = Ended(@, "raised", {}, EmptyMap)]), err)
  ELSE IF Top(m).kind = "load" THEN Unwind_scope_left(Pop(m), err)
  ELSE m

\* an exception leaves the innermost function: every _run it passes pops its
\* scope (the finally of line 372) and installs nothing; a slot that raises
\* inside emit does not stop the emit.  When reset() has cleared the tracking
\* stack, the pop of line 155 raises IndexError itself
RECURSIVE Unwind(_, _)
Unwind(m, err) ==
  IF Len(m.stack) = 0 THEN [m EXCEPT !.ret = [v |-> err, node |-> ""]]
  ELSE IF Top(m).kind = "run"
  THEN LET f == Top(m)
           empty == Len(m.TLstack) = 0
           accessed == IF empty THEN {} ELSE m.TLstack[Len(m.TLstack)]
       IN Unwind(Pop([m EXCEPT !.TLstack = IF empty THEN @ ELSE SubSeq(@, 1, Len(@) - 1),
                               !.lastRun[f.b] = Ended(@, "raised", accessed, EmptyMap)]),
                 IF empty THEN INDEXERR ELSE err)
  ELSE IF Top(m).kind = "load" THEN Unwind(Pop(m), err)
  ELSE m

\* lines 372-384 when the function returned
FinishRun(m) ==
  IF Len(m.TLstack) = 0 THEN Unwind(m, INDEXERR)
  ELSE LET f == Top(m)
           accessed == m.TLstack[Len(m.TLstack)]
           m1 == [m EXCEPT !.TLstack = SubSeq(@, 1, Len(@) - 1)]
           m2 == Install(m1, f.b, accessed)
       IN Pop([m2 EXCEPT !.lastRun[f.b] = Ended(@, "ok", accessed, f.seen)])

\* one instruction of the function of the innermost run
ExecInstr(m) ==
  LET f == Top(m)
      ins == Prog(f.b)[f.pc]
      next == [f EXCEPT !.pc = @ + 1]
  IN CASE ins.op = "get" ->
            LET r == get(m, ins.path) IN
            IF r.ret = KEYERR THEN Unwind(r.st, KEYERR)
            ELSE SetTop(r.st, [next EXCEPT !.reg = r.ret, !.seen = Put(@, ins.path, r.ret)])
       [] ins.op = "retnone" ->
            IF f.reg \in {MISSING, NONE}
            THEN SetTop(m, [f EXCEPT !.pc = Len(Prog(f.b)) + 1])
            ELSE SetTop(m, next)
       [] ins.op = "skipne" ->
            IF f.reg = MISSING THEN Unwind(m, KEYERR)
            ELSE IF f.reg # ins.arg THEN SetTop(m, [f EXCEPT !.pc = @ + 2])
            ELSE SetTop(m, next)
       [] ins.op = "setreg" ->
            LET v == IF f.reg = GROUP THEN DictVal(EmptyMap) ELSE ScalarVal(f.reg)
                r == set(m, ins.path, v)
            IN IF r.outcome = "raised" THEN Unwind(r.st, VALERR)
               ELSE AfterSet(m, [r EXCEPT !.st = SetTop(r.st, next)], ins.path, v)
       [] ins.op = "setflip" ->
            LET v == ScalarVal(Flip(f.reg))
                r == set(m, ins.path, v)
            IN IF r.outcome = "raised" THEN Unwind(r.st, VALERR)
               ELSE AfterSet(m, [r EXCEPT !.st = SetTop(r.st, next)], ins.path, v)
       [] ins.op = "call" -> StartRun(SetTop(m, next), ins.arg)
       [] ins.op = "reset" -> reset(SetTop(m, next))

\* the emit visits its next connection: a handler disconnected meanwhile is not
\* called; handler(changed_key, _value) re-runs its binding when the key is its own
EmitVisit(m) ==
  LET f == Top(m)
      h == Head(f.todo)
      f1 == [f EXCEPT !.todo = Tail(@)]
  IN IF IsConnected(m, h.id) /\ h.k = f.path
     THEN StartRun(SetTop(m, [f1 EXCEPT !.fired[h.b] = @ + 1]), h.b)
     ELSE SetTop(m, f1)

\* a bug: the bulk load writes through the change-only path
LoadLeaf_unforced(m) ==
  LET f == Top(m)
      item == Head(f.todo)
      m1 == SetTop(m, [f EXCEPT !.todo = Tail(@)])
      r == set_nested(m1, item.path, item.val, FALSE)
  IN IF r.outcome = "raised" THEN Unwind(r.st, VALERR)
     ELSE AfterSet(m1, r, item.path, item.val)

\* _load_defaults writes its next leaf through the forced path (line 431)
LoadLeaf(m) ==
  LET f == Top(m)
      item == Head(f.todo)
      m1 == SetTop(m, [f EXCEPT !.todo = Tail(@)])
      r == set_nested(m1, item.path, item.val, TRUE)
  IN IF r.outcome = "raised" THEN Unwind(r.st, VALERR)
     ELSE AfterSet(m1, r, item.path, item.val)

\* ------------------------------------------------- attribute (dot) reads
\* settings.k1.k2...kn: one __getattr__ per segment.  cur is what the previous
\* hop returned: the registry, a SettingsNode ("node"), a _MissingNode
\* ("missing"); a hop on a value that is no proxy raises AttributeError.
Result(st, v, node) == [st |-> st, ret |-> [v |-> v, node |-> node]]

RECURSIVE Hop(_, _, _, _)
HopValue(st, path, i, v) ==
  IF i = Len(path) THEN Result(st, v, "") ELSE Result(st, ATTRERR, "")

Hop(st, path, i, cur) ==
  LET np == Prefix(path, i) IN
  IF cur = "missing"
  THEN (IF i = Len(path) THEN Result(st, MISSING, "") ELSE Hop(st, path, i + 1, "missing"))
  ELSE IF cur = "node" /\ IsIndirectTheme(np)
  THEN LET r == theme_get(st, path[i]) IN
       IF r.ret = KEYERR THEN Result(r.st, KEYERR, "") ELSE HopValue(r.st, path, i, r.ret)
  ELSE IF np \in DOMAIN st.LEAF
  THEN HopValue([st EXCEPT !.TLstack = track(@, np)], path, i, st.LEAF[np])
  ELSE LET v == get_nested(st.data, np) IN
       IF v = GROUP
       THEN LET hit == np \in DOMAIN st.NODE
                s1 == IF hit THEN st ELSE cache_node(st, np, PROXY)
            IN IF i = Len(path) THEN Result(s1, PROXY, IF hit THEN "cached" ELSE "new")
               ELSE Hop(s1, path, i + 1, "node")
       ELSE IF v = NONE
       THEN (IF i = Len(path) THEN Result(st, MISSING, "") ELSE Hop(st, path, i + 1, "missing"))
       ELSE HopValue([cache_leaf(st, np, v) EXCEPT !.TLstack = track(@, np)], path, i, v)

getattr(st, path) == Hop(st, path, 1, "registry")

\* ------------------------------------------------------ the missing marker
\* what a caller does with the value a read returned: compare it with None or
\* with another value, coerce it, use it in arithmetic
Uses == {"eq_none", "eq_value", "bool", "str", "int", "float", "add", "sub"}
TRUEVAL == "True"

\* a bug: a marker coerced to bool is False
missing_use_falsy(p, k) ==
  IF k = "eq_none" THEN [v |-> TRUEVAL, node |-> ""]
  ELSE IF k = "bool" THEN [v |-> "False", node |-> ""]
  ELSE [v |-> KEYERR, node |-> "", named |-> p]

\* _MissingNode(registry, p) used as k: __eq__ returns True for None, every
\* other use goes through _raise, whose KeyError names p
missing_use(p, k) ==
  IF k = "eq_none" THEN [v |-> TRUEVAL, node |-> ""]
  ELSE [v |-> KEYERR, node |-> "", named |-> p]

\* -------------------------------------------------------------- snapshots
\* to_dict(): copy.deepcopy(_data), a separate nested dict with the same content
to_dict(st) == [taken |-> TRUE, alias |-> FALSE, d |-> st.data]

\* the nested dict a snapshot reference stands for
SnapValue(st) == IF st.snap.alias THEN st.data ELSE st.snap.d

\* the (path, value) pairs _load_defaults reaches in nested dict d: a dict is
\* descended into, so an empty one contributes nothing
DictLeaves(d) == {p \in AllPaths : d[p] \notin {ABSENT, GROUP}}

\* _load_defaults(d) on st, leaf by leaf, until one raises
RECURSIVE load_defaults(_, _, _)
load_defaults(st, d, todo) ==
  IF todo = {} THEN st
  ELSE LET p == CHOOSE x \in todo : \A y \in todo : Len(x) <= Len(y)
           r == set_nested(st, p, ScalarVal(d[p]), TRUE)
       IN IF r.outcome = "raised" THEN r.st ELSE load_defaults(r.st, d, todo \ {p})

\* from_dict(d)
from_dict(st, d) == load_defaults(st, d, DictLeaves(d))

\* ------------------------------------------- attribute (dot) assignment
\* SettingsNode.__setattr__(name, value) on the proxy of the group at p
node_setattr(st, p, name, value) ==
  IF p = pTheme /\ name \notin {"light", "dark", "mode"}
  THEN [st |-> st, outcome |-> "raised", emit |-> FALSE]
  ELSE set_nested(st, Append(p, name), value, FALSE)

\* _MissingNode.__setattr__(name, value) on the marker of path p
missing_setattr(st, p, name, value) == set_nested(st, Append(p, name), value, FALSE)

\* SettingsRegistry.__setattr__(name, value), name a settings key
registry_setattr(st, name, value) == set_nested(st, <<name>>, value, FALSE)

\* settings.k1...kn = value: the hops k1...k(n-1) are attribute reads, the
\* assignment goes to what they returned; a plain value (a cached dict, a
\* string) has no such attribute.  [st, outcome, emit, err]
Failed(st, err) == [st |-> st, outcome |-> "raised", emit |-> FALSE, err |-> err]
Wrote(r) == [st |-> r.st, outcome |-> r.outcome, emit |-> r.emit,
             err |-> IF r.outcome = "raised" THEN VALERR ELSE OK]

setattr(st, path, value) ==
  IF Len(path) = 1 THEN Wrote(registry_setattr(st, path[1], value))
  ELSE LET parent == Prefix(path, Len(path) - 1)
           name == path[Len(path)]
           h == getattr(st, parent)
       IN CASE h.ret.v = PROXY -> Wrote(node_setattr(h.st, parent, name, value))
            [] h.ret.v = MISSING -> Wrote(missing_setattr(h.st, parent, name, value))
            [] h.ret.v = KEYERR -> Failed(h.st, KEYERR)
            [] OTHER -> Failed(h.st, ATTRERR)

\* ------------------------------------------------------------- the system
Cur ==
  [data |-> data, LEAF |-> LEAF, NODE |-> NODE, CHILDREN |-> CHILDREN,
   theme_cache |-> theme_cache, TLstack |-> TLstack, conns |-> conns,
   slots |-> slots, stack |-> stack, ret |-> ret, op |-> op, writes |-> writes,
   events |-> events, lastRun |-> lastRun, discarded |-> discarded, snap |-> snap,
   reader |-> reader]

IsState(m) ==
  /\ data = m.data /\ LEAF = m.LEAF /\ NODE = m.NODE /\ CHILDREN = m.CHILDREN
  /\ theme_cache = m.theme_cache /\ TLstack = m.TLstack /\ conns = m.conns
  /\ slots = m.slots /\ stack = m.stack /\ ret = m.ret /\ op = m.op
  /\ writes = m.writes /\ events = m.events /\ lastRun = m.lastRun
  /\ discarded = m.discarded /\ snap = m.snap /\ reader = m.reader

Becomes(m) ==
  /\ data' = m.data /\ LEAF' = m.LEAF /\ NODE' = m.NODE /\ CHILDREN' = m.CHILDREN
  /\ theme_cache' = m.theme_cache /\ TLstack' = m.TLstack /\ conns' = m.conns
  /\ slots' = m.slots /\ stack' = m.stack /\ ret' = m.ret /\ op' = m.op
  /\ writes' = m.writes /\ events' = m.events /\ lastRun' = m.lastRun
  /\ discarded' = m.discarded /\ snap' = m.snap /\ reader' = m.reader

Init == IsState(Constructed)

\* no operation is in progress / the operation has returned to its caller
Idle == Len(stack) = 0 /\ op.name = "idle"
Completed == Len(stack) = 0 /\ op.name # "idle"
Running == Len(stack) > 0

\* a user operation begins
Begin(name, path, val, items) ==
  [Cur EXCEPT !.op = [name |-> name, path |-> path, val |-> val, outcome |-> "", items |-> items]]

\* the caller goes on after the operation
Return ==
  /\ Completed
  /\ Becomes([Cur EXCEPT !.op = NoOp, !.ret = NoRet, !.writes = <<>>, !.events = <<>>])

\* settings.set(path, val)
DoSet(path, val) ==
  /\ Idle
  /\ LET m0 == Begin("set", path, val, <<>>)
         r == set(m0, path, val)
         m1 == [r.st EXCEPT !.op.outcome = r.outcome,
                            !.ret.v = IF r.outcome = "raised" THEN VALERR ELSE OK]
     IN Becomes(AfterSet(m0, [r EXCEPT !.st = m1], path, val))

\* settings.get(path)
DoGet(path) ==
  /\ Idle
  /\ LET r == get(Begin("get", path, ScalarVal(NONE), <<>>), path)
     IN Becomes([r.st EXCEPT !.ret.v = r.ret])

\* settings.k1.k2...kn
DoGetAttr(path) ==
  /\ Idle
  /\ LET r == getattr(Begin("getattr", path, ScalarVal(NONE), <<>>), path)
     IN Becomes([r.st EXCEPT !.ret = r.ret])

\* settings.k1.k2...kn = val
DoSetAttr(path, val) ==
  /\ Idle
  /\ LET m0 == Begin("setattr", path, val, <<>>)
         r == setattr(m0, path, val)
         m1 == [r.st EXCEPT !.op.outcome = r.outcome, !.ret.v = r.err]
     IN Becomes(AfterSet(m0, [st |-> m1, outcome |-> r.outcome, emit |-> r.emit], path, val))

\* the caller uses, as k, the marker the read it has just made returned; the
\* marker holds the path of that read
DoUse(k) ==
  /\ Completed /\ op.name \in {"get", "getattr"} /\ ret.v = MISSING
  /\ Becomes([Cur EXCEPT !.op = [@ EXCEPT !.name = "use", !.outcome = k],
                         !.ret = missing_use(op.path, k)])

\* settings.from_dict(M), M given by its leaves in iteration order
DoFromDict(items) ==
  /\ Idle
  /\ LET m0 == Begin("from_dict", <<>>, ScalarVal(NONE), items)
     IN Becomes([m0 EXCEPT !.stack = <<LoadFrame(items)>>])

\* The second thread calls settings.get(path), path no bare theme key.  Nothing
\* in get or _set_nested takes a lock, so the other thread may run between its
\* statements.  Its tracking stack is its own (threading.local) and is empty.
\* Lines 655-662: a cache hit returns; a miss reads the store
ReaderRead(path) ==
  /\ reader.pc = "idle" /\ ~IsIndirectTheme(path)
  /\ LET hit == path \in DOMAIN LEAF
         v == IF hit THEN LEAF[path] ELSE get_nested(data, path)
     IN Becomes([Cur EXCEPT !.reader =
                   [pc |-> IF hit \/ v = NONE THEN "done" ELSE "populate",
                    path |-> path, v |-> IF v = NONE THEN MISSING ELSE v,
                    missed |-> ~hit]])

\* lines 664-665: the value read is put in the leaf cache
ReaderPopulate ==
  /\ reader.pc = "populate"
  /\ Becomes([cache_leaf(Cur, reader.path, reader.v) EXCEPT !.reader.pc = "done"])

\* the second thread goes on
ReaderReturn ==
  /\ reader.pc = "done"
  /\ Becomes([Cur EXCEPT !.reader = NoReader])

\* snap = settings.to_dict()
DoToDict ==
  /\ Idle
  /\ Becomes([Begin("to_dict", <<>>, ScalarVal(NONE), <<>>) EXCEPT !.snap = to_dict(Cur)])

\* SettingsRegistry.reset(); settings = SettingsRegistry.instance()
DoReset ==
  /\ Idle
  /\ Becomes(reset(Begin("reset", <<>>, ScalarVal(NONE), <<>>)))

\* a manual call of the reactive function b
DoCall(b) ==
  /\ Idle
  /\ Becomes(StartRun(Begin("call", <<>>, ScalarVal(NONE), <<>>), b))

\* the steps of the call in progress
EmitStep ==
  /\ Running /\ Top(Cur).kind = "emit" /\ Len(Top(Cur).todo) > 0
  /\ Becomes(EmitVisit(Cur))

EmitDone ==
  /\ Running /\ Top(Cur).kind = "emit" /\ Len(Top(Cur).todo) = 0
  /\ Becomes(Pop(Cur))

RunStep ==
  /\ Running /\ Top(Cur).kind = "run" /\ Top(Cur).pc <= Len(Prog(Top(Cur).b))
  /\ Becomes(ExecInstr(Cur))

RunReturn ==
  /\ Running /\ Top(Cur).kind = "run" /\ Top(Cur).pc > Len(Prog(Top(Cur).b))
  /\ Becomes(FinishRun(Cur))

LoadStep ==
  /\ Running /\ Top(Cur).kind = "load" /\ Len(Top(Cur).todo) > 0
  /\ Becomes(LoadLeaf(Cur))

LoadDone ==
  /\ Running /\ Top(Cur).kind = "load" /\ Len(Top(Cur).todo) = 0
  /\ Becomes(Pop(Cur))

\* ---------------------------------------------------------- specifications
MaxLeaves == 2
MaxSlots == 6

ScalarVals == {ScalarVal(s) : s \in Scalars \cup {NONE}}
DictVals == {DictVal(m) : m \in Mappings}
SetVals == ScalarVals \cup DictVals

\* the longest common prefix of two paths
RECURSIVE CommonLen(_, _, _)
CommonLen(a, b, n) ==
  IF n < Len(a) /\ n < Len(b) /\ a[n + 1] = b[n + 1] THEN CommonLen(a, b, n + 1) ELSE n

\* a nested mapping as the sequence of its leaves in iteration order: no leaf
\* lies under another, and the leaves of one sub-mapping are consecutive
Snapshots(paths, vals) ==
  {s \in UNION {[1..n -> [path : paths, val : vals]] : n \in 1..MaxLeaves} :
     /\ \A i, j \in DOMAIN s : i # j => ~IsPrefix(s[i].path, s[j].path)
     /\ \A i, j, k \in DOMAIN s :
          (i < j /\ j < k) =>
            CommonLen(s[i].path, s[j].path, 0) >= CommonLen(s[i].path, s[k].path, 0)}

\* The store and its caches: writes, reads and bulk loads on a user group
\* and on a theme variant
StorePaths == {pU, pUa, pUax, pLight, pLightBg}
LoadPaths == {pU, pUa, pLightBg}
LoadVals == {ScalarVal("light"), ScalarVal(NONE)}

Next ==
  \/ \E p \in StorePaths, v \in ScalarVals \cup DictVals : DoSet(p, v)
  \/ \E p \in StorePaths : DoGet(p)
  \/ \E p \in StorePaths : DoGetAttr(p)
  \/ \E s \in Snapshots(LoadPaths, LoadVals) : DoFromDict(s)
  \/ LoadStep \/ LoadDone \/ EmitDone \/ Return

Spec == Init /\ [][Next]_vars

\* Bulk loads of up to MaxLeaves leaves over two user leaves and a theme leaf,
\* between writes that make u or u.a a leaf or a group and reads that fill the
\* caches
BulkPaths == {pUa, pUb, pLightBg}

NextLoad ==
  \/ \E s \in Snapshots(BulkPaths, LoadVals) : DoFromDict(s)
  \/ \E p \in {pU, pUa, pUax, pLightBg}, v \in ScalarVals : DoSet(p, v)
  \/ \E p \in {pU, pUa, pLightBg} : DoGet(p)
  \/ LoadStep \/ LoadDone \/ EmitDone \/ Return

SpecLoad == Init /\ [][NextLoad]_vars

\* The theme: variant writes, whole-group replacement, mode changes, reads of
\* the indirect key, and the reactive function T
ThemePaths == {pMode, pLight, pDark, pLightBg, pDarkBg, pLightBgX, pBg}

NextTheme ==
  \/ \E p \in ThemePaths, v \in SetVals : DoSet(p, v)
  \/ \E p \in {pBg, pMode, pLightBg} : DoGet(p)
  \/ DoCall("T")
  \/ EmitStep \/ EmitDone \/ RunStep \/ RunReturn \/ Return

SpecTheme == Init /\ [][NextTheme]_vars

\* Reactive functions: X reads u.a, copies it to w and, when it is "light",
\* reads u.b; C reads w and calls X.  Operations begin while the bus holds at
\* most MaxSlots connections.
ReactivePaths == {pUa, pUb, pW}
ReactiveVals == {ScalarVal(s) : s \in Scalars}

NextReactive ==
  \/ Len(slots) <= MaxSlots /\ \E p \in ReactivePaths, v \in ReactiveVals : DoSet(p, v)
  \/ Len(slots) <= MaxSlots /\ \E b \in {"X", "C"} : DoCall(b)
  \/ EmitStep \/ EmitDone \/ RunStep \/ RunReturn \/ Return

SpecReactive == Init /\ [][NextReactive]_vars

\* Attribute assignment beside set and bulk loads, on the theme group and on a
\* user group, with reads that fill the leaf and proxy caches
AttrPaths == {pBg, pMode, pLightBg, pUax}
AttrLoadPaths == {pMode, pLightBg, pBg}

NextAttr ==
  \/ \E p \in AttrPaths, v \in SetVals : DoSetAttr(p, v)
  \/ \E p \in {pBg, pMode, pLight}, v \in SetVals : DoSet(p, v)
  \/ \E p \in {pTheme, pBg, pMode} : DoGet(p)
  \/ \E p \in {pTheme, pLightBg} : DoGetAttr(p)
  \/ \E s \in Snapshots(AttrLoadPaths, LoadVals) : DoFromDict(s)
  \/ LoadStep \/ LoadDone \/ EmitDone \/ Return

SpecAttr == Init /\ [][NextAttr]_vars

\* Reads of paths that hold nothing, below leaves and below missing groups, and
\* what the caller does with the marker they return
MissingReads == {pUa, pUax, pLightBg, pBg, pW}

NextMissing ==
  \/ \E p \in {pU, pUa, pUax, pLight}, v \in SetVals : DoSet(p, v)
  \/ \E p \in MissingReads : DoGet(p)
  \/ \E p \in {pUa, pUax, pLightBg} : DoGetAttr(p)
  \/ \E k \in Uses : DoUse(k)
  \/ EmitDone \/ Return

SpecMissing == Init /\ [][NextMissing]_vars

\* Reset among writes, reads that fill the caches and reactive runs: X is
\* called on the first instance, R resets from inside its own run.  A binding
\* is bound to the registry it was created on (line 726), so after the reset
\* the bindings are left alone
ResetPaths == {pUa, pMode, pLightBg}

NextReset ==
  \/ \E p \in ResetPaths, v \in ReactiveVals : DoSet(p, v)
  \/ \E p \in ResetPaths : DoGet(p)
  \/ DoGetAttr(pLightBg)
  \/ ~discarded.is /\ \E b \in {"X", "R"} : DoCall(b)
  \/ DoReset
  \/ EmitStep \/ EmitDone \/ RunStep \/ RunReturn \/ Return

SpecReset == Init /\ [][NextReset]_vars

\* Snapshots taken between writes of leaves and of whole variants, with reads
\* that fill the caches; a variant may be given an empty mapping as a value
NestedVals == {DictVal([k \in ThemeKeys |-> GROUP])}
SnapPaths == {pLight, pLightBg, pUa}

NextSnap ==
  \/ \E p \in SnapPaths, v \in SetVals \cup NestedVals : DoSet(p, v)
  \/ \E p \in SnapPaths : DoGet(p)
  \/ DoToDict
  \/ EmitDone \/ Return

SpecSnap == Init /\ [][NextSnap]_vars

\* Two threads: one writes and reads u.a, the other reads it
ThreadPaths == {pUa}

NextThreads ==
  \/ \E p \in ThreadPaths, v \in ScalarVals : DoSet(p, v)
  \/ \E p \in ThreadPaths : DoGet(p)
  \/ \E p \in ThreadPaths : ReaderRead(p)
  \/ ReaderPopulate \/ ReaderReturn
  \/ EmitDone \/ Return

SpecThreads == Init /\ [][NextThreads]_vars

\* Two reactive functions that write the path the other reads: F copies u.a to
\* u.b, G writes to u.a the mode u.b does not hold
CyclePaths == {pUa, pUb}

NextCycle ==
  \/ \E p \in CyclePaths, v \in ReactiveVals : DoSet(p, v)
  \/ \E b \in {"F", "G"} : DoCall(b)
  \/ EmitStep \/ EmitDone \/ RunStep \/ RunReturn \/ Return

SpecCycle == Init /\ [][NextCycle]_vars

\* Tracking scopes: X is re-run by writes to u.a and writes w, which re-runs D
\* inside the run of X; D calls T, which fails while theme.bg is undefined in
\* a variant (replacing theme.light by an empty group removes it again)
ScopePaths == {pUa, pLightBg, pDarkBg}

NextScopes ==
  \/ Len(slots) <= MaxSlots /\ \E p \in ScopePaths, v \in ReactiveVals : DoSet(p, v)
  \/ Len(slots) <= MaxSlots /\ DoSet(pLight, DictVal(EmptyMap))
  \/ Len(slots) <= MaxSlots /\ \E b \in {"X", "D"} : DoCall(b)
  \/ EmitStep \/ EmitDone \/ RunStep \/ RunReturn \/ Return

SpecScopes == Init /\ [][NextScopes]_vars

\* Failing runs: Y raises when it has read "light"; E changes u.a and calls Y,
\* also from its handler for w while a run of Y is writing w
RaisePaths == {pUa, pW}

NextRaise ==
  \/ Len(slots) <= MaxSlots /\ \E p \in RaisePaths, v \in ReactiveVals : DoSet(p, v)
  \/ Len(slots) <= MaxSlots /\ \E b \in {"Y", "E"} : DoCall(b)
  \/ EmitStep \/ EmitDone \/ RunStep \/ RunReturn \/ Return

SpecRaise == Init /\ [][NextRaise]_vars

\* ------------------------------------------------------------------ claims
OpIs(name) == Completed /\ op.name = name

StoredEquals(p, v) ==
  IF v.isDict THEN data[p] = GROUP /\ DictItems(data, p) = v.m ELSE data[p] = v.s

\* C3: set(P, V) with V equal to the value stored at P, for every P that set
\* accepts (theme.light and theme.dark included), is a no-op: store, caches,
\* child index and theme cache unchanged, no event
C3_EqualWriteIsNoOp ==
  [][(op.name = "idle" /\ op'.name = "set" /\ op'.outcome # "raised"
        /\ StoredEquals(op'.path, op'.val))
     => (data' = data /\ LEAF' = LEAF /\ NODE' = NODE /\ CHILDREN' = CHILDREN
           /\ theme_cache' = theme_cache /\ events' = <<>>)]_vars

\* C4: every accepted write publishes exactly one event, carrying the written
\* path and the new value; a skipped or raising set publishes none; the events
\* are as many as the accepted writes
C4_OneEventPerWrite ==
  /\ events = writes
  /\ OpIs("set") =>
       IF op.outcome = "accepted"
       THEN Len(events) >= 1 /\ events[1] = [path |-> op.path, val |-> op.val]
       ELSE events = <<>>

\* a whole-group replacement has been accepted and published once
C4_Witness ==
  /\ OpIs("set") /\ op.outcome = "accepted" /\ op.path = pLight
  /\ events = <<[path |-> pLight, val |-> op.val]>> /\ writes = events

IsPrefixSeq(a, b) == Len(a) <= Len(b) /\ SubSeq(b, 1, Len(a)) = a
LeafPaths(items) == {items[i].path : i \in DOMAIN items}

\* while from_dict(M) runs, no existing path other than the leaves of M changes
LoadLeavesOthers ==
  [][op'.name = "from_dict"
     => \A q \in AllPaths : (data[q] # ABSENT /\ q \notin LeafPaths(op'.items))
                              => data'[q] = data[q]]_vars

TreeOK(d) ==
  \A q \in AllPaths : d[q] # ABSENT => \A i \in 1..(Len(q) - 1) : d[Prefix(q, i)] = GROUP

\* the proper prefixes of p that hold a value that is no group
LeafPrefix(d, p) == {q \in AllPaths : IsProperPrefix(q, p) /\ d[q] \notin {ABSENT, GROUP}}

Conflict(d, p, v) ==
  \/ ~v.isDict /\ d[p] = GROUP
  \/ v.isDict /\ p \notin {pLight, pDark}
  \/ LeafPrefix(d, p) # {}

\* C10: no path is both a leaf and a group; a scalar written over a group, a
\* mapping written anywhere but theme.light / theme.dark, and a write below a
\* leaf all fail, leaving P and that prefix as they were and publishing nothing
C10_StructuralConflict ==
  /\ TreeOK(data)
  /\ Idle => \A p \in AllPaths, v \in SetVals :
       Conflict(data, p, v) =>
         LET r == set(Cur, p, v) IN
           /\ r.outcome = "raised" /\ ~r.emit
           /\ r.st.data[p] = data[p]
           /\ \A q \in LeafPrefix(data, p) : r.st.data[q] = data[q]
  /\ (OpIs("set") /\ Conflict(data, op.path, op.val) /\ op.outcome # "accepted")
       => (ret.v = VALERR /\ events = <<>>)

\* a write below the leaf u.a has failed
C10_Witness ==
  /\ OpIs("set") /\ op.path = pUax /\ op.outcome = "raised" /\ ret.v = VALERR
  /\ data[pUa] \in Scalars /\ data[pUax] = ABSENT /\ events = <<>>

BgInBoth == data[pLightBg] # ABSENT /\ data[pDarkBg] # ABSENT

\* C7: whenever bg is defined under both variants, get("theme.bg") returns the
\* value stored at theme.<mode>.bg for the current mode
C7_ThemeReadIsCurrent ==
  (Idle /\ BgInBoth /\ data[pMode] \in {"light", "dark"})
    => get(Cur, pBg).ret = data[<<"theme", data[pMode], "bg">>]

\* an emit that has visited all its connections
EmitOver(f) == f.kind = "emit" /\ Len(f.todo) = 0

\* C8: whenever an accepted write changes the value theme.bg resolves to, every
\* binding whose most recent run read theme.bg (T, when its last run returned)
\* is re-invoked
C8_ThemeChangeReruns ==
  \A i \in 1..Len(stack) :
    LET f == stack[i] IN
    (EmitOver(f) /\ f.deps0["T"].status = "ok" /\ f.was # UNDEF
       /\ ThemeResolved(data) # UNDEF /\ f.was # ThemeResolved(data))
      => f.fired["T"] >= 1

\* a run of b is executing below position i of the stack
InProgress(b, i) == \E j \in 1..(i - 1) : stack[j].kind = "run" /\ stack[j].b = b

\* C1: a binding whose most recent run read exactly the paths K is re-invoked
\* exactly once by each accepted write to a path of K, zero times by a write to
\* any other path, and zero times before its first invocation
C1_ExactlyOncePerWrite ==
  \A i \in 1..Len(stack) : \A b \in Bindings :
    LET f == stack[i] IN
    (EmitOver(f) /\ ~InProgress(b, i)) =>
      IF f.deps0[b].status = "ok" /\ f.path \in f.deps0[b].keys
      THEN f.fired[b] = 1
      ELSE f.fired[b] = 0

\* C5: a path read by an earlier run of a binding and not by its most recent
\* run no longer re-invokes it, while the paths of the most recent run still do
C5_DroppedPathIsSilent ==
  \A i \in 1..Len(stack) : \A b \in Bindings :
    LET f == stack[i] IN
    (EmitOver(f) /\ ~InProgress(b, i) /\ f.deps0[b].status = "ok") =>
      /\ f.path \in f.deps0[b].dropped => f.fired[b] = 0
      /\ f.path \in f.deps0[b].keys => f.fired[b] >= 1

\* the handlers connected to the bus on behalf of b
Subscribed(b) == {slots[i].id : i \in {j \in 1..Len(slots) : slots[j].b = b}}

\* C6: whenever no run of a binding is in progress, the handlers subscribed on
\* its behalf are exactly those of its registration table, one per path read
\* by its most recent run
C6_NoLeakedSubscription ==
  \A b \in Bindings :
    ~InProgress(b, Len(stack) + 1) =>
      /\ Subscribed(b) = {conns[b][k] : k \in DOMAIN conns[b]}
      /\ lastRun[b].status = "ok" => DOMAIN conns[b] = lastRun[b].keys

\* the call raised before it touched anything
Rejected == [st |-> Cur, outcome |-> "raised", emit |-> FALSE]

\* C11: set("theme.bg", V) and the assignment of bg on the proxy of theme fail
\* in every state and for every V, leaving the store, the caches, the theme
\* cache and the connections as they were and publishing nothing.  The
\* statement settings.theme.bg = V first reads settings.theme, which may
\* cache the proxy of theme, and raises AttributeError instead when that read
\* returns the dict held by the leaf cache
C11_DirectThemeWrite ==
  /\ [](Idle => \A v \in SetVals :
            /\ set(Cur, pBg, v) = Rejected
            /\ node_setattr(Cur, pTheme, "bg", v) = Rejected)
  /\ [][(op.name = "idle" /\ op'.name \in {"set", "setattr"} /\ op'.path = pBg)
         => /\ op'.outcome = "raised"
            /\ ret'.v = IF op'.name = "setattr" /\ pTheme \in DOMAIN LEAF
                         THEN ATTRERR ELSE VALERR
            /\ data' = data /\ LEAF' = LEAF /\ theme_cache' = theme_cache
            /\ slots' = slots /\ events' = <<>> /\ stack' = <<>>
            /\ DOMAIN NODE' \subseteq DOMAIN NODE \cup {pTheme}
            /\ op'.name = "set" => (NODE' = NODE /\ CHILDREN' = CHILDREN)]_vars

\* settings.theme.bg = "dark" has failed on the proxy while both variants
\* define bg
C11_Witness ==
  /\ OpIs("setattr") /\ op.path = pBg /\ op.val.s = "dark" /\ ret.v = VALERR
  /\ pTheme \in DOMAIN NODE /\ data[pLightBg] \in Scalars /\ data[pBg] \in Scalars

\* C14: in every state reached by set, attribute assignment and bulk loads,
\* theme.mode is a leaf that get returns, and theme.light and theme.dark are
\* groups
C14_ThemeSkeleton ==
  /\ get(Cur, pMode).ret \notin {MISSING, KEYERR}
  /\ data[pMode] \notin {ABSENT, GROUP, NONE}
  /\ data[pLight] = GROUP /\ data[pDark] = GROUP

\* C12: reading theme.bg fails with KeyError exactly when bg is absent from
\* theme.light or from theme.dark, whichever mode is active, and succeeds when
\* both define it
C12_ThemeKeyParity == Idle => (get(Cur, pBg).ret = KEYERR <=> ~BgInBoth)

\* get(p) returns a marker and caches nothing
ReadsMissing(p) == get(Cur, p).ret = MISSING /\ get(Cur, p).st.LEAF = LEAF

\* what using a marker as k must give: True for a comparison with None, and
\* otherwise a KeyError naming the marker's path
UseOK ==
  OpIs("use") =>
    ret = IF op.outcome = "eq_none" THEN [v |-> TRUEVAL, node |-> ""]
          ELSE [v |-> KEYERR, node |-> "", named |-> op.path]

Without(f, path) == [q \in {x \in DOMAIN f : ~IsPrefix(path, x)} |-> f[q]]

\* C20: an accepted set(P, V) removes from the leaf cache and the proxy cache
\* the entries for P and for every cached descendant of P, and leaves every
\* other entry (siblings, ancestors, unrelated paths) in place unchanged
C20_InvalidatesExactly ==
  [][(op.name = "idle" /\ op'.name = "set" /\ op'.outcome = "accepted")
     => (LEAF' = Without(LEAF, op'.path) /\ NODE' = Without(NODE, op'.path))]_vars

\* theme.light has been replaced: its entries are gone, while the ancestor
\* theme (leaf entry and proxy), the sibling theme.mode and the unrelated
\* proxy of u are still cached
C20_Witness ==
  /\ OpIs("set") /\ op.path = pLight /\ op.outcome = "accepted"
  /\ pTheme \in DOMAIN LEAF /\ pTheme \in DOMAIN NODE /\ pMode \in DOMAIN LEAF
  /\ pU \in DOMAIN NODE
  /\ \A q \in {pLight, pLightBg} : q \notin DOMAIN LEAF /\ q \notin DOMAIN NODE

\* C18: when C calls X during its run, the paths read inside X are recorded only
\* in X's read set, never in C's; afterwards an accepted write to a path read
\* only by X re-runs X exactly once and C zero times, and an accepted write to
\* a path read directly by C re-runs C exactly once
C18_ComposedTracking ==
  /\ lastRun["C"].keys \subseteq {pW}
  /\ \A i \in 1..Len(stack) :
       LET f == stack[i]
           KC == f.deps0["C"].keys
           KX == f.deps0["X"].keys
       IN (EmitOver(f) /\ ~InProgress("C", i) /\ ~InProgress("X", i)
             /\ f.deps0["C"].status = "ok" /\ f.deps0["X"].status = "ok")
          => /\ f.path \in KX \ KC => (f.fired["X"] = 1 /\ f.fired["C"] = 0)
             /\ f.path \in KC => f.fired["C"] = 1

\* a step that performs reset(): the caller's, or the one inside the run of R
ResetStep ==
  \/ op.name = "idle" /\ op'.name = "reset"
  \/ Running /\ Top(Cur).kind = "run" /\ Top(Cur).b = "R" /\ Top(Cur).pc = 2

\* the skeleton every constructed store holds
Skeleton == {pTheme, pMode, pLight, pDark}

\* paths holding a value some write has stored: a scalar that construction did
\* not put there
SetBefore == {p \in AllPaths : data[p] \in Scalars /\ (p = pMode => data[p] # "light")}

\* what reset() leaves behind, and what the next store holds
ResetClears ==
  /\ LEAF' = EmptyMap /\ NODE' = EmptyMap /\ CHILDREN' = EmptyMap
  /\ slots' = <<>> /\ discarded'.slots = <<>> /\ TLstack' = <<>>
  /\ data' = Constructed.data /\ conns' = conns

\* after a reset no binding runs except the one that called reset, and no emit
\* invokes any
NoRerun ==
  discarded.is =>
    \A i \in 1..Len(stack) :
      /\ stack[i].kind = "emit" => stack[i].fired = NoFired
      /\ stack[i].kind = "run" => stack[i].b = "R"

Restored == from_dict(Constructed, SnapValue(Cur))

\* what get(p) returns in st: the value, and for a dict its content
Reads(st, p) ==
  LET r == get(st, p)
  IN [ret |-> r.ret,
      content |-> IF r.ret = GROUP
                  THEN [q \in {x \in AllPaths : IsProperPrefix(p, x)} |-> r.st.data[q]]
                  ELSE EmptyMap]

\* paths that hold what an accepted write stored
WasSet ==
  {p \in AllPaths : data[p] \in Scalars \cup {NONE}}
    \cup {p \in {pLight, pDark} : DictKeys(data, p) # {}}

\* C15: a fresh store loaded from a snapshot gives, for every path set before
\* the snapshot was taken, the get result of the original store; and a snapshot
\* already taken is not altered by later writes
C15_SnapshotRoundTrip ==
  /\ [](OpIs("to_dict") => \A p \in WasSet : Reads(Restored, p) = Reads(Cur, p))
  /\ [][(snap.taken /\ op'.name # "to_dict") => SnapValue(Cur') = SnapValue(Cur)]_vars

\* C17: when a get(P) that missed the leaf cache on one thread and an accepted
\* set(P, V) on another have both completed, the leaf cache has no entry for P
\* or holds V
C17_SerializedCache ==
  (OpIs("set") /\ op.outcome = "accepted" /\ reader.pc = "done" /\ reader.missed
     /\ reader.path = op.path)
    => (op.path \notin DOMAIN LEAF \/ LEAF[op.path] = op.val.s)

\* a write to u.a by the caller is being dispatched; when it was made F's last
\* run had read u.a and G's had read u.b; since then F has written u.b and G
\* has written u.a, each a value different from the stored one
CycleStarted ==
  /\ op.name = "set" /\ op.path = pUa /\ Len(stack) >= 1
  /\ stack[1].kind = "emit" /\ stack[1].path = pUa
  /\ stack[1].deps0["F"].status = "ok" /\ pUa \in stack[1].deps0["F"].keys
  /\ stack[1].deps0["G"].status = "ok" /\ pUb \in stack[1].deps0["G"].keys
  /\ Len(writes) >= 3 /\ writes[2].path = pUb /\ writes[3].path = pUa

\* C16: there is no cycle protection: once F and G have each run, an accepted
\* write to u.a starts nested re-runs of F and G that never end, so the dispatch
\* never returns to the caller
C16_NoCycleProtection == [][CycleStarted => Len(stack') >= 1]_vars

\* C30: a set that fails with a structural conflict is atomic: the store after
\* the failed call is identical to the store before it (no intermediate group
\* is created), and the caches and the theme cache are unchanged
C30_FailedSetIsAtomic ==
  [][(op.name = "idle" /\ op'.name = "set" /\ op'.outcome = "raised"
        /\ ~IsIndirectTheme(op'.path))
     => (data' = data /\ LEAF' = LEAF /\ NODE' = NODE /\ CHILDREN' = CHILDREN
           /\ theme_cache' = theme_cache)]_vars

\* the proper prefixes of p that are paths
ProperPrefixes(p) == {Prefix(p, i) : i \in 1..(Len(p) - 1)}

Cached == DOMAIN LEAF \cup DOMAIN NODE

\* C21: every path in the leaf cache or the proxy cache is registered in the
\* child index under each of its proper prefixes, and every path registered
\* under a prefix is in one of the two caches; no set of the index is empty
C21_ChildIndexConsistent ==
  /\ \A p \in Cached : \A q \in ProperPrefixes(p) :
       q \in DOMAIN CHILDREN /\ p \in CHILDREN[q]
  /\ \A q \in DOMAIN CHILDREN :
       /\ CHILDREN[q] # {}
       /\ \A p \in CHILDREN[q] : p \in Cached /\ q \in ProperPrefixes(p)

\* theme.light.bg, the only cached path below theme.light, has been written:
\* its registrations are gone, the set of theme.light with them, while
\* theme.light, cached as a leaf entry and as a proxy, stays registered
C21_Witness ==
  /\ OpIs("set") /\ op.path = pLightBg /\ op.outcome = "accepted"
  /\ pLight \in DOMAIN LEAF /\ pLight \in DOMAIN NODE
  /\ pLight \notin DOMAIN CHILDREN /\ CHILDREN[pTheme] = {pLight}
  /\ pUa \in DOMAIN LEAF /\ CHILDREN[pU] = {pUa}

\* C23: the leaf cache holds only scalar values: no read of a group path or of
\* an absent path puts an entry for that path in the leaf cache
C23_LeafCacheHoldsScalars == \A p \in DOMAIN LEAF : LEAF[p] \in Scalars

\* C22: every read of a group path G, by attribute access or by get(G), returns
\* the proxy of G, and the identical one as long as G is not invalidated: the
\* read returns the proxy the cache holds, creating one only when it holds none
C22_StableProxy ==
  [][(op.name = "idle" /\ op'.name \in {"get", "getattr"} /\ data[op'.path] = GROUP)
     => /\ ret'.v = PROXY
        /\ op'.path \in DOMAIN NODE'
        /\ op'.path \in DOMAIN NODE => ret'.node = "cached"]_vars

ReadBack(v) == IF v.isDict THEN GROUP ELSE IF v.s = NONE THEN MISSING ELSE v.s

\* the step begins a publish: an emit frame is pushed
PublishBegins == Len(stack') = Len(stack) + 1 /\ stack'[Len(stack')].kind = "emit"

\* the innermost frame is the run of the first handler an emit invoked, and it
\* has executed its first statement, a get of the path published
FirstHandlerHasRead ==
  /\ Len(stack) >= 2 /\ Top(Cur).kind = "run" /\ Top(Cur).pc = 2
  /\ stack[Len(stack) - 1].kind = "emit"
  /\ \A b \in Bindings :
       stack[Len(stack) - 1].fired[b] = IF b = Top(Cur).b THEN 1 ELSE 0
  /\ Prog(Top(Cur).b)[1] = Instr("get", stack[Len(stack) - 1].path, "")

\* C24: when the publish for an accepted write of V to P begins, the store
\* holds V at P and neither cache has an entry for P or for a descendant of P,
\* so a get(P) made by the first handler invoked returns V
C24_StoreInvalidatePublish ==
  /\ [][PublishBegins =>
         LET f == stack'[Len(stack')] IN
         /\ data'[f.path] = f.val.s
         /\ \A q \in DOMAIN LEAF' \cup DOMAIN NODE' : ~IsPrefix(f.path, q)
         /\ get(Cur', f.path).ret = ReadBack(f.val)]_vars
  /\ [](FirstHandlerHasRead => Top(Cur).reg = ReadBack(stack[Len(stack) - 1].val))

\* u.a was "light", read and copied to w by X; it has been written "dark" and
\* X, the first handler invoked, has read "dark"
C24_Witness ==
  /\ FirstHandlerHasRead /\ Top(Cur).b = "X" /\ Len(stack) = 2
  /\ stack[1].path = pUa /\ stack[1].val.s = "dark" /\ stack[1].old = "light"
  /\ data[pW] = "light" /\ Top(Cur).reg = "dark" /\ LEAF[pUa] = "dark"

RunFrames == {i \in 1..Len(stack) : stack[i].kind = "run"}

\* the scopes are those of the running invocations, in the order they began:
\* the innermost scope is the one of the innermost running function
ScopesMatchRuns ==
  /\ Len(TLstack) = Cardinality(RunFrames)
  /\ \A i \in RunFrames : stack[i].token = Cardinality({j \in RunFrames : j <= i})

\* a step opens one empty scope, closes the innermost scopes, or adds reads to
\* the innermost one; the scopes underneath are never touched
ScopeStep ==
  \/ TLstack' = Append(TLstack, {})
  \/ Len(TLstack') < Len(TLstack) /\ TLstack' = SubSeq(TLstack, 1, Len(TLstack'))
  \/ /\ Len(TLstack') = Len(TLstack)
     /\ \A k \in 1..Len(TLstack) :
          IF k = Len(TLstack) THEN TLstack[k] \subseteq TLstack'[k]
          ELSE TLstack'[k] = TLstack[k]

\* C25: tracking scopes are strictly nested and always closed. The scopes on
\* the tracking stack are exactly those of the invocations in progress, the
\* innermost first to close (so the scope popped is always the one of the
\* invocation that ends and the ticket check cannot fail), the scopes of the
\* callers are untouched while an invocation runs, and an invocation that has
\* returned or raised has removed its scope: the stack is what it was before.
C25_ScopesNestedAndClosed ==
  /\ [](ScopesMatchRuns /\ (Len(stack) = 0 => TLstack = <<>>))
  /\ [][ScopeStep]_vars

\* D has been re-run inside the run of X and has failed in its nested call of
\* T: both scopes are closed and only the scope of X is open
C25_Witness ==
  /\ Len(stack) >= 3
  /\ Top(Cur).kind = "emit" /\ Top(Cur).path = pW /\ Top(Cur).fired["D"] = 1
  /\ stack[Len(stack) - 1].kind = "run" /\ stack[Len(stack) - 1].b = "X"
  /\ stack[Len(stack) - 1].token = 1
  /\ lastRun["D"].status = "raised" /\ lastRun["T"].status = "raised"
  /\ Len(TLstack) = 1 /\ pUa \in TLstack[1]

\* C28: while the function of a binding is executing, no handler of that
\* binding is subscribed on the signal (so a write it makes to a path it read
\* cannot re-invoke it)
C28_NoHandlerWhileRunning == \A i \in RunFrames : Subscribed(stack[i].b) = {}

Executing(b) == \E i \in RunFrames : stack[i].b = b

\* the innermost run ends in this step by a failure of its function
RunFails ==
  /\ Len(stack) > 0 /\ Top(Cur).kind = "run"
  /\ Len(stack') < Len(stack)
  /\ lastRun'[Top(Cur).b].status = "raised"

\* the failure passes through every calling run and reaches the caller of the
\* outermost one: the user's call, or the signal whose handler made the run
Propagates ==
  /\ \A i \in (Len(stack') + 1)..Len(stack) :
       stack[i].kind = "run" /\ lastRun'[stack[i].b].status = "raised"
  /\ IF Len(stack') = 0 THEN ret'.v \in {KEYERR, VALERR}
     ELSE stack'[Len(stack')].kind = "emit"

\* C29: a run whose function raises propagates the failure to its caller and
\* leaves the binding without any subscription: none for the paths read before
\* the failure, and none of the previous run
C29_FailedRunLeavesNoHandler ==
  /\ [][RunFails => Propagates]_vars
  /\ [](\A b \in Bindings :
          (lastRun[b].status = "raised" /\ ~Executing(b))
             => (Subscribed(b) = {} /\ conns[b] = EmptyMap))

\* the last run of b completed and what it read at p is no longer what a read
\* of p gives
StaleView(b, p) ==
  /\ lastRun[b].status = "ok"
  /\ p \in DOMAIN lastRun[b].seen
  /\ get(Cur, p).ret # lastRun[b].seen[p]

\* the paths whose change was published since the operation began
Published == {events[i].path : i \in 1..Len(events)}

\* C27: once an outermost set has returned, no binding whose most recent run
\* completed is left with a stale view of a path whose change the set (or the
\* dispatch nested in it) published: the path still reads as the value that
\* run read, so a change published during the run has been followed by a
\* further run
C27_NoStaleView ==
  OpIs("set") => \A b \in Bindings : \A p \in Published : ~StaleView(b, p)

\* C31: the theme group never holds a child other than mode, light and dark:
\* nothing is ever stored, as a leaf or as a group, at theme.<key> for another
\* key
C31_ThemeHasNoOtherChild ==
  \A p \in AllPaths :
    (Len(p) >= 2 /\ p[1] = "theme" /\ p[2] \notin {"mode", "light", "dark"})
       => data[p] = ABSENT

====
